---- MODULE Spec2Model ----
(***************************************************************************)
(* Model of src/projects/data/app.py: the data loading with fallback       *)
(* (RemoteDataLoader, LocalDataLoader, DataManager), the filter            *)
(* (DataFilter), the renderers (Visualizer), the UI builder and the        *)
(* reactive server wiring of IrisApp.                                      *)
(***************************************************************************)
EXTENDS Integers, Sequences, FiniteSets, TLC

VARIABLES
    remote_url,     \* DataManager.remote_url (os.environ.get("POSIT_DATA_URL"))
    local_file,     \* the file at DataManager.local_path: [exists, body]
    heap,           \* the DataFrame objects: reference -> frame
    _data,          \* DataManager._data: a reference, None before a load
    data_filter,    \* IrisApp.data_filter.dataframe: a reference
    visualizer,     \* IrisApp.visualizer.dataframe: a reference
    pc,             \* position in the module-level start-up code
    app_error,      \* the exception that ended start-up
    species_choices,\* the dropdown's choices built by build_app_ui
    input_species,  \* input.species(): the session's current selection
    filtered_data,  \* the reactive.Calc cell of build_server
    table_ui,       \* the output table_ui: pending flag and last markup
    scatter_plot,   \* the output scatter_plot: pending flag and last markup
    call,           \* the last direct call of DataFilter.filter_by_column
    last_load,      \* record of the last DataManager.load call (observation)
    loads,          \* number of DataManager.load calls (observation)
    data_reads,     \* number of reads of DataManager.data (observation)
    changes,        \* number of selection changes (observation)
    calc_runs,      \* number of executions of filtered_data's body (observation)
    rendered        \* selections seen by at least one render (observation)

vars == <<remote_url, local_file, heap, _data, data_filter, visualizer, pc,
          app_error, species_choices, input_species, filtered_data, table_ui,
          scatter_plot, call, last_load, loads, data_reads, changes, calc_runs,
          rendered>>

startup_vars == <<remote_url, local_file, _data, data_filter, visualizer,
                  app_error, species_choices, last_load, loads, data_reads>>

-----------------------------------------------------------------------------
(* Values *)

None == 0                   \* the reference None
MaxLoads == 3               \* DataManager.data is read three times at start-up
LoadRefs == 1..MaxLoads     \* the frame the n-th DataManager.load stores
ViewRef == MaxLoads + 1     \* the frame a filter made for filtered_data
CallRef == MaxLoads + 2     \* the frame a filter made for a direct call
Refs == 1..CallRef
NoError == "none"
NaN == "NaN"                \* pandas' missing value

NoFrame == [columns |-> <<>>, index |-> <<>>, rows |-> <<>>]

Range(s) == {s[i] : i \in 1..Len(s)}

-----------------------------------------------------------------------------
(* CSV text: a body is a sequence of lines, a line a sequence of fields.   *)

IrisCsv == << <<"species", "sepal_length", "petal_length", "petal_width">>,
              <<"setosa", "5", "1", "2">>,
              <<"versicolor", "6", "4", "1">>,
              <<"setosa", "4", "1", "2">> >>

\* a species literally named like the sentinel, and no petal_width column
AllCsv == << <<"species", "sepal_length", "petal_length">>,
             <<"All", "1", "1">>,
             <<"virginica", "2", "2">> >>

\* a header and no data line: an empty dataset
HeaderOnlyCsv == << <<"species", "sepal_length", "petal_length", "petal_width">> >>

\* a well-formed table of other columns
OtherCsv == << <<"a", "b">>, <<"1", "2">> >>

\* only the species column
SpeciesOnlyCsv == << <<"species">>, <<"setosa">>, <<"virginica">> >>

\* an empty species field and a short line
GapCsv == << <<"species", "sepal_length", "petal_length">>,
             <<"", "5", "1">>,
             <<"setosa", "4">> >>

\* a data line wider than the lines before it
RaggedCsv == << <<"species", "sepal_length">>,
                <<"setosa", "5">>,
                <<"setosa", "5", "1">> >>

EmptyCsv == <<>>

Bodies == {IrisCsv, AllCsv, HeaderOnlyCsv, OtherCsv, SpeciesOnlyCsv, GapCsv,
           RaggedCsv, EmptyCsv}

\* pandas reads an empty field as the missing value
Field(f) == IF f = "" THEN NaN ELSE f

Pad(line, n) == [i \in 1..n |-> IF i <= Len(line) THEN Field(line[i]) ELSE NaN]

\* pd.read_csv on bodies whose first data line is no wider than the header:
\* no data at all and a line with too many fields are errors, a short line is
\* filled with NaN, the rows get the index labels 0, 1, ...
read_csv(body) ==
    IF Len(body) = 0
    THEN [ok |-> FALSE, err |-> "EmptyDataError", df |-> NoFrame]
    ELSE IF \E i \in 2..Len(body) : Len(body[i]) > Len(body[1])
    THEN [ok |-> FALSE, err |-> "ParserError", df |-> NoFrame]
    ELSE [ok |-> TRUE, err |-> NoError,
          df |-> [columns |-> body[1],
                  index |-> [i \in 1..(Len(body) - 1) |-> i - 1],
                  rows |-> [i \in 1..(Len(body) - 1) |->
                               Pad(body[i + 1], Len(body[1]))]]]

-----------------------------------------------------------------------------
(* The loaders *)

\* what requests.get meets: no response, or a response with a status and a body
RemoteOutcomes ==
    [kind : {"network_error", "timeout"}, body : {EmptyCsv}]
      \cup [kind : {"http_error"}, body : {OtherCsv}]
      \cup [kind : {"response"}, body : Bodies]

NoOutcome == [kind |-> "not_attempted", body |-> EmptyCsv]

\* faulty variant of RemoteDataLoader.load: raise_for_status is left out
RemoteDataLoader_load_nostatus(outcome) ==
    IF outcome.kind \in {"network_error", "timeout"}
    THEN [ok |-> FALSE, err |-> "IOError", df |-> NoFrame]
    ELSE LET r == read_csv(outcome.body)
         IN  IF r.ok THEN r ELSE [ok |-> FALSE, err |-> "IOError", df |-> NoFrame]

\* RemoteDataLoader.load: every exception of the get, of raise_for_status and
\* of read_csv is re-raised as IOError
RemoteDataLoader_load(outcome) ==
    IF outcome.kind # "response"
    THEN [ok |-> FALSE, err |-> "IOError", df |-> NoFrame]
    ELSE LET r == read_csv(outcome.body)
         IN  IF r.ok THEN r ELSE [ok |-> FALSE, err |-> "IOError", df |-> NoFrame]

LocalFiles == [exists : {FALSE}, body : {EmptyCsv}]
                \cup [exists : {TRUE}, body : Bodies]

LocalDataLoader_load(file) ==
    IF ~file.exists
    THEN [ok |-> FALSE, err |-> "FileNotFoundError", df |-> NoFrame]
    ELSE read_csv(file.body)

\* the values of POSIT_DATA_URL: unset, set to the empty string, set to a URL
Urls == {"None", "", "http://data"}

\* Python truth of Optional[str]
Truthy(url) == url \notin {"None", ""}

\* faulty variants of DataManager.load: a remote failure that is not caught,
\* a second request after a failed one, a local file that is preferred
DataManager_load_propagate(url, outcome, file) ==
    LET r == RemoteDataLoader_load(outcome)
        l == LocalDataLoader_load(file)
    IN  IF Truthy(url)
        THEN [ok |-> r.ok, err |-> r.err, df |-> r.df, source |-> "remote",
              http |-> 1, local |-> 0]
        ELSE [ok |-> l.ok, err |-> l.err, df |-> l.df, source |-> "local",
              http |-> 0, local |-> 1]

DataManager_load_retry(url, outcome, file) ==
    LET r == RemoteDataLoader_load(outcome)
        l == LocalDataLoader_load(file)
    IN  IF Truthy(url) /\ r.ok
        THEN [ok |-> TRUE, err |-> NoError, df |-> r.df, source |-> "remote",
              http |-> 1, local |-> 0]
        ELSE [ok |-> l.ok, err |-> l.err, df |-> l.df, source |-> "local",
              http |-> IF Truthy(url) THEN 2 ELSE 0, local |-> 1]

DataManager_load_local_first(url, outcome, file) ==
    LET r == RemoteDataLoader_load(outcome)
        l == LocalDataLoader_load(file)
    IN  IF l.ok \/ ~Truthy(url)
        THEN [ok |-> l.ok, err |-> l.err, df |-> l.df, source |-> "local",
              http |-> 0, local |-> 1]
        ELSE [ok |-> r.ok, err |-> r.err, df |-> r.df, source |-> "remote",
              http |-> 1, local |-> 1]

\* DataManager.load: what it returns or raises, where the frame came from, and
\* the requests (http) and local file accesses (local) it made
DataManager_load(url, outcome, file) ==
    LET r == RemoteDataLoader_load(outcome)
        l == LocalDataLoader_load(file)
    IN  IF Truthy(url) /\ r.ok
        THEN [ok |-> TRUE, err |-> NoError, df |-> r.df, source |-> "remote",
              http |-> 1, local |-> 0]
        ELSE [ok |-> l.ok, err |-> l.err, df |-> l.df, source |-> "local",
              http |-> IF Truthy(url) THEN 1 ELSE 0, local |-> 1]

NoLoad == [called |-> FALSE, ok |-> FALSE, err |-> NoError, df |-> NoFrame,
           source |-> "none", http |-> 0, local |-> 0, outcome |-> NoOutcome]

\* faulty variant of the test in DataManager.data: every read loads
NeedsLoad_always(d) == TRUE

\* whether a read of DataManager.data starts a load

NeedsLoad(d) == d = None

\* the property DataManager.data, read while the remote end answers `outcome`
DataProperty(outcome) ==
    /\ data_reads' = data_reads + 1
    /\ IF NeedsLoad(_data)
       THEN LET res == DataManager_load(remote_url, outcome, local_file)
            IN  /\ loads' = loads + 1
                /\ last_load' = [called |-> TRUE, ok |-> res.ok, err |-> res.err,
                                 df |-> res.df, source |-> res.source,
                                 http |-> res.http, local |-> res.local,
                                 outcome |-> IF Truthy(remote_url) THEN outcome
                                             ELSE NoOutcome]
                /\ IF res.ok
                   THEN /\ _data' = loads'
                        /\ heap' = [heap EXCEPT ![loads'] = res.df]
                   ELSE UNCHANGED <<_data, heap>>
       ELSE UNCHANGED <<loads, last_load, _data, heap>>

\* the read of DataManager.data raised: it loaded and the load failed
DataRaised == loads' # loads /\ ~last_load'.ok


-----------------------------------------------------------------------------
(* DataFilter *)

HasColumn(df, c) == c \in Range(df.columns)

ColumnIndex(df, c) == CHOOSE i \in 1..Len(df.columns) : df.columns[i] = c

\* the positions of the rows whose cell in column c equals value; a NaN cell
\* equals nothing
Matching(df, c, value) ==
    {i \in 1..Len(df.rows) :
        LET cell == df.rows[i][ColumnIndex(df, c)]
        IN  cell # NaN /\ cell = value}

\* the positions in P in increasing order
Ordered(P) ==
    LET F[k \in 0..Cardinality(P)] ==
            IF k = 0 THEN <<>>
            ELSE LET rest == P \ Range(F[k - 1])
                 IN  Append(F[k - 1],
                            CHOOSE i \in rest : \A j \in rest : i <= j)
    IN  F[Cardinality(P)]

\* dataframe[mask]: a new frame of the masked rows with their index labels
Take(df, P) ==
    LET o == Ordered(P)
    IN  [columns |-> df.columns,
         index |-> [k \in 1..Len(o) |-> df.index[o[k]]],
         rows |-> [k \in 1..Len(o) |-> df.rows[o[k]]]]

\* faulty variant of filter_by_column: the rows are dropped from self.dataframe itself
filter_by_column_inplace(h, self_df, column, value, fresh) ==
    IF value = "All"
    THEN [heap |-> h, ret |-> self_df, err |-> NoError]
    ELSE IF ~HasColumn(h[self_df], column)
    THEN [heap |-> h, ret |-> None, err |-> "KeyError"]
    ELSE [heap |-> [h EXCEPT ![self_df] =
                        Take(h[self_df], Matching(h[self_df], column, value))],
          ret |-> self_df, err |-> NoError]

\* faulty variant of filter_by_column: no sentinel
filter_by_column_nosentinel(h, self_df, column, value, fresh) ==
    IF ~HasColumn(h[self_df], column)
    THEN [heap |-> h, ret |-> None, err |-> "KeyError"]
    ELSE [heap |-> [h EXCEPT ![fresh] =
                        Take(h[self_df], Matching(h[self_df], column, value))],
          ret |-> fresh, err |-> NoError]

\* DataFilter.filter_by_column on the frame self_df of heap h: the reference
\* it returns (self.dataframe itself for "All", else a new frame stored at
\* fresh) or the exception it raises
filter_by_column(h, self_df, column, value, fresh) ==
    IF value = "All"
    THEN [heap |-> h, ret |-> self_df, err |-> NoError]
    ELSE IF ~HasColumn(h[self_df], column)
    THEN [heap |-> h, ret |-> None, err |-> "KeyError"]
    ELSE [heap |-> [h EXCEPT ![fresh] =
                        Take(h[self_df], Matching(h[self_df], column, value))],
          ret |-> fresh, err |-> NoError]

-----------------------------------------------------------------------------
(* Visualizer *)

NoMarkup == [ok |-> FALSE, err |-> NoError, shown |-> 0, cells |-> <<>>]

\* Visualizer.create_data_table (DataFrame.to_html): a header line and one
\* line per row, each led by the row's index label
create_data_table(df) ==
    <<(<<"">> \o df.columns)>> \o
        [i \in 1..Len(df.rows) |-> <<ToString(df.index[i])>> \o df.rows[i]]

\* Visualizer.create_scatter_plot: px.scatter raises ValueError for a column
\* name that is not in the frame; else one point per row
create_scatter_plot(df, x, y, color) ==
    IF ~({x, y, color} \subseteq Range(df.columns))
    THEN [ok |-> FALSE, err |-> "ValueError", shown |-> 0, cells |-> <<>>]
    ELSE [ok |-> TRUE, err |-> NoError, shown |-> Len(df.rows),
          cells |-> [i \in 1..Len(df.rows) |->
                       <<df.rows[i][ColumnIndex(df, x)],
                         df.rows[i][ColumnIndex(df, y)],
                         df.rows[i][ColumnIndex(df, color)]>>
                       \o (IF HasColumn(df, "petal_width")
                           THEN <<df.rows[i][ColumnIndex(df, "petal_width")]>>
                           ELSE <<>>)]]

-----------------------------------------------------------------------------
(* UIBuilder *)

\* the order of Python's str comparison on the species names of the bodies
Collation == <<"All", "setosa", "versicolor", "virginica">>

\* sorted() of a set of strings
Sorted(S) == SelectSeq(Collation, LAMBDA x : x \in S)

\* df[column].unique() as a set
Unique(df, c) == {df.rows[i][ColumnIndex(df, c)] : i \in 1..Len(df.rows)}

\* UIBuilder.build_app_ui: df["species"] raises KeyError without the column,
\* sorted() raises TypeError when it compares NaN (a float) with a str
build_app_ui(df) ==
    IF ~HasColumn(df, "species")
    THEN [ok |-> FALSE, err |-> "KeyError", choices |-> <<>>]
    ELSE IF NaN \in Unique(df, "species") /\ Cardinality(Unique(df, "species")) > 1
    THEN [ok |-> FALSE, err |-> "TypeError", choices |-> <<>>]
    ELSE [ok |-> TRUE, err |-> NoError,
          choices |-> <<"All">> \o (IF Unique(df, "species") = {NaN}
                                      THEN <<NaN>>
                                      ELSE Sorted(Unique(df, "species")))]

-----------------------------------------------------------------------------
(* Start-up: IrisApp.__init__ and build_ui, run at import *)

MaxChanges == 3             \* selection changes explored in a session

NoCalc == [valid |-> FALSE, ret |-> None, err |-> NoError, sel |-> ""]
NoOutput == [pending |-> FALSE, run |-> 0, markup |-> NoMarkup]
NoCall == [called |-> FALSE, column |-> "", value |-> "", ret |-> None,
           err |-> NoError, before |-> NoFrame]

Init ==
    /\ remote_url \in Urls
    /\ local_file \in LocalFiles
    /\ heap = [r \in Refs |-> NoFrame]
    /\ _data = None
    /\ data_filter = None
    /\ visualizer = None
    /\ pc = "start"
    /\ app_error = NoError
    /\ species_choices = <<>>
    /\ input_species = ""
    /\ filtered_data = NoCalc
    /\ table_ui = NoOutput
    /\ scatter_plot = NoOutput
    /\ call = NoCall
    /\ last_load = NoLoad
    /\ loads = 0
    /\ data_reads = 0
    /\ changes = 0
    /\ calc_runs = 0
    /\ rendered = 0

session_vars == <<input_species, filtered_data, table_ui, scatter_plot,
                  changes, calc_runs, rendered>>

\* self.data_filter = DataFilter(self.data_manager.data); an exception of the
\* load leaves __init__ and ends the import
InitDataFilter ==
    /\ pc = "start"
    /\ \E outcome \in RemoteOutcomes :
          /\ DataProperty(outcome)
          /\ IF ~DataRaised
             THEN /\ data_filter' = _data'
                  /\ pc' = "filter_ready"
                  /\ UNCHANGED app_error
             ELSE /\ pc' = "load_failed"
                  /\ app_error' = last_load'.err
                  /\ UNCHANGED data_filter
    /\ UNCHANGED <<remote_url, local_file, visualizer, species_choices, call>>
    /\ UNCHANGED session_vars

\* self.visualizer = Visualizer(self.data_manager.data);
\* self.ui_builder = UIBuilder(self.data_manager)
InitVisualizer ==
    /\ pc = "filter_ready"
    /\ \E outcome \in RemoteOutcomes :
          /\ DataProperty(outcome)
          /\ IF ~DataRaised
             THEN /\ visualizer' = _data'
                  /\ pc' = "constructed"
                  /\ UNCHANGED app_error
             ELSE /\ pc' = "load_failed"
                  /\ app_error' = last_load'.err
                  /\ UNCHANGED visualizer
    /\ UNCHANGED <<remote_url, local_file, data_filter, species_choices, call>>
    /\ UNCHANGED session_vars

\* app_ui = iris_app.build_ui(); app = App(app_ui, server)
BuildUI ==
    /\ pc = "constructed"
    /\ \E outcome \in RemoteOutcomes :
          /\ DataProperty(outcome)
          /\ IF DataRaised
             THEN /\ pc' = "load_failed"
                  /\ app_error' = last_load'.err
                  /\ UNCHANGED species_choices
             ELSE LET page == build_app_ui(heap'[_data'])
                  IN  IF page.ok
                      THEN /\ species_choices' = page.choices
                           /\ pc' = "serving"
                           /\ UNCHANGED app_error
                      ELSE /\ pc' = "ui_failed"
                           /\ app_error' = page.err
                           /\ UNCHANGED species_choices
    /\ UNCHANGED <<remote_url, local_file, data_filter, visualizer, call>>
    /\ UNCHANGED session_vars

-----------------------------------------------------------------------------
(* The session: build_server's reactive graph *)

\* a session starts: build_server defines the Calc and the two outputs, the
\* select's value is its first choice, both outputs wait for their first run
SessionStart ==
    /\ pc = "serving"
    /\ pc' = "running"
    /\ input_species' = species_choices[1]
    /\ filtered_data' = NoCalc
    /\ table_ui' = [NoOutput EXCEPT !.pending = TRUE]
    /\ scatter_plot' = [NoOutput EXCEPT !.pending = TRUE]
    /\ UNCHANGED <<heap, call, changes, calc_runs, rendered>>
    /\ UNCHANGED startup_vars

\* the user picks another choice: the input's dependants are invalidated, the
\* Calc and through it both outputs
SelectSpecies(v) ==
    /\ pc = "running"
    /\ changes < MaxChanges
    /\ v \in Range(species_choices)
    /\ v # input_species
    /\ input_species' = v
    /\ filtered_data' = [filtered_data EXCEPT !.valid = FALSE]
    /\ table_ui' = [table_ui EXCEPT !.pending = TRUE]
    /\ scatter_plot' = [scatter_plot EXCEPT !.pending = TRUE]
    /\ changes' = changes + 1
    /\ UNCHANGED <<heap, call, calc_runs, rendered, pc>>
    /\ UNCHANGED startup_vars

\* the body of filtered_data
RunFilter ==
    LET res == filter_by_column(heap, data_filter, "species", input_species,
                                ViewRef)
    IN  /\ filtered_data' = [valid |-> TRUE, ret |-> res.ret, err |-> res.err,
                             sel |-> input_species]
        /\ heap' = res.heap
        /\ calc_runs' = calc_runs + 1

\* faulty variant: filtered_data as a plain function, run by every caller
FilteredData_plain == RunFilter

\* a call of filtered_data(): the Calc runs its body only when it is invalid
\* and else hands out the value it holds
FilteredData ==
    IF ~filtered_data.valid
    THEN RunFilter
    ELSE UNCHANGED <<filtered_data, heap, calc_runs>>

\* a render counts the current selection as rendered when it is the first
\* render since the selection was set
CountRendered ==
    rendered' = IF table_ui.pending /\ scatter_plot.pending
                THEN rendered + 1 ELSE rendered

\* the output table_ui runs
RenderTable ==
    /\ pc = "running"
    /\ table_ui.pending
    /\ FilteredData
    /\ CountRendered
    /\ table_ui' =
         [pending |-> FALSE, run |-> calc_runs',
          markup |-> IF filtered_data'.err # NoError
                     THEN [NoMarkup EXCEPT !.err = filtered_data'.err]
                     ELSE LET d == heap'[filtered_data'.ret]
                          IN  [ok |-> TRUE, err |-> NoError,
                               shown |-> Len(d.rows),
                               cells |-> create_data_table(d)]]
    /\ UNCHANGED <<input_species, scatter_plot, call, changes, pc>>
    /\ UNCHANGED startup_vars

\* the output scatter_plot runs
RenderPlot ==
    /\ pc = "running"
    /\ scatter_plot.pending
    /\ FilteredData
    /\ CountRendered
    /\ scatter_plot' =
         [pending |-> FALSE, run |-> calc_runs',
          markup |-> IF filtered_data'.err # NoError
                     THEN [NoMarkup EXCEPT !.err = filtered_data'.err]
                     ELSE create_scatter_plot(heap'[filtered_data'.ret],
                              "sepal_length", "petal_length", "species")]
    /\ UNCHANGED <<input_species, table_ui, call, changes, pc>>
    /\ UNCHANGED startup_vars

-----------------------------------------------------------------------------
(* A direct call of the filter *)

FilterColumns == {"species", "sepal_length", "colour"}
FilterValues == {"All", "setosa", "virginica", "5", "NaN"}

\* iris_app.data_filter.filter_by_column(column, value)
FilterCall(column, value) ==
    /\ data_filter # None
    /\ LET res == filter_by_column(heap, data_filter, column, value, CallRef)
       IN  /\ heap' = res.heap
           /\ call' = [called |-> TRUE, column |-> column, value |-> value,
                       ret |-> res.ret, err |-> res.err,
                       before |-> heap[data_filter]]
    /\ UNCHANGED <<pc>>
    /\ UNCHANGED session_vars
    /\ UNCHANGED startup_vars

-----------------------------------------------------------------------------
(* Specifications *)

\* the application: start-up, then one session
Next ==
    \/ InitDataFilter
    \/ InitVisualizer
    \/ BuildUI
    \/ SessionStart
    \/ \E v \in Range(Collation) : SelectSpecies(v)
    \/ RenderTable
    \/ RenderPlot

Spec == Init /\ [][Next]_vars

\* the filter called directly on every frame a load can return
FilterNext ==
    \/ InitDataFilter
    \/ InitVisualizer
    \/ \E c \in FilterColumns, v \in FilterValues : FilterCall(c, v)

FilterSpec == Init /\ [][FilterNext]_vars

-----------------------------------------------------------------------------
(* Properties *)

\* the bodies pd.read_csv rejects, listed by hand
Unparsable == {RaggedCsv, EmptyCsv}

\* the remote source is configured and the fetch of the last load failed
RemoteFailed ==
    /\ Truthy(remote_url)
    /\ \/ last_load.outcome.kind \in {"network_error", "timeout", "http_error"}
       \/ /\ last_load.outcome.kind = "response"
          /\ last_load.outcome.body \in Unparsable

\* the remote source is configured and the fetch of the last load succeeded
RemoteSucceeded ==
    /\ Truthy(remote_url)
    /\ last_load.outcome.kind = "response"
    /\ last_load.outcome.body \notin Unparsable

LocalFailed == ~local_file.exists \/ local_file.body \in Unparsable

\* C1: DataManager.load raises to its caller exactly when the remote source is
\* absent or failed and the local file is missing or malformed; in every other
\* case it returns a dataset and stores it.
C1_LoadFailsIffBothFail ==
    last_load.called =>
        /\ ~last_load.ok <=> (~RemoteSucceeded /\ LocalFailed)
        /\ ~last_load.ok <=> pc = "load_failed"
        /\ ~last_load.ok <=> app_error \in {"FileNotFoundError", "ParserError",
                                            "EmptyDataError"}
        /\ last_load.ok <=> _data # None

C1_Witness ==
    /\ pc = "load_failed"
    /\ Truthy(remote_url)
    /\ last_load.outcome.kind = "http_error"
    /\ local_file.exists
    /\ local_file.body = RaggedCsv

\* C2: with a remote URL configured and a failed fetch, the remote failure
\* (IOError) never reaches the caller; when the local file loads, load returns
\* the frame read from the local file, and otherwise the error is the local
\* loader's.
C2_SilentFallback ==
    (last_load.called /\ RemoteFailed) =>
        /\ last_load.err # "IOError"
        /\ last_load.source = "local"
        /\ ~LocalFailed =>
              /\ last_load.ok
              /\ last_load.df = read_csv(local_file.body).df
              /\ last_load.df.columns = local_file.body[1]
              /\ Len(last_load.df.rows) = Len(local_file.body) - 1
              /\ heap[_data] = last_load.df
        /\ LocalFailed => ~last_load.ok

C2_Witness ==
    /\ last_load.called
    /\ Truthy(remote_url)
    /\ last_load.outcome.kind = "response"
    /\ last_load.outcome.body = RaggedCsv
    /\ local_file.exists
    /\ local_file.body = IrisCsv
    /\ last_load.ok
    /\ Len(heap[_data].rows) = 3

\* C3: with a remote URL configured and a successful fetch, load returns and
\* stores the frame parsed from the remote payload and does not touch the
\* local file, whatever the local file is.
C3_RemotePreferred ==
    (last_load.called /\ RemoteSucceeded) =>
        /\ last_load.ok
        /\ last_load.source = "remote"
        /\ last_load.local = 0
        /\ last_load.df = read_csv(last_load.outcome.body).df
        /\ last_load.df.columns = last_load.outcome.body[1]
        /\ Len(last_load.df.rows) = Len(last_load.outcome.body) - 1
        /\ _data # None
        /\ heap[_data] = last_load.df

C3_Witness ==
    /\ last_load.called
    /\ Truthy(remote_url)
    /\ last_load.outcome.kind = "response"
    /\ last_load.outcome.body = AllCsv
    /\ local_file.exists
    /\ local_file.body = IrisCsv
    /\ _data # None
    /\ Len(heap[_data].rows) = 2

C10_OneLoadAtStartup ==
    /\ loads <= 1
    /\ data_reads >= 1 => loads = 1
    /\ data_filter # None => data_filter = _data
    /\ visualizer # None => visualizer = _data
    /\ pc \in {"serving", "running"} =>
          /\ data_reads = 3
          /\ data_filter = _data
          /\ visualizer = _data
          /\ species_choices = build_app_ui(heap[_data]).choices
          /\ heap[_data] = last_load.df

C10_Witness ==
    /\ pc = "running"
    /\ data_reads = 3
    /\ loads = 1
    /\ last_load.http = 1
    /\ Len(species_choices) = 3

\* the rows of a frame with their index labels
Labelled(df) == [i \in 1..Len(df.rows) |-> <<df.index[i], df.rows[i]>>]

\* the labelled rows of df whose cell in column c is v, in df's order
RowsEqual(df, c, v) ==
    SelectSeq(Labelled(df), LAMBDA p : p[2][ColumnIndex(df, c)] = v)

\* the str values that occur in column c of df (NaN is no str)
Occurring(df, c) == Unique(df, c) \ {NaN}

\* the direct call filtered an existing column by a value that occurs in it
CallOnOccurring ==
    /\ call.called
    /\ HasColumn(call.before, call.column)
    /\ call.value \in Occurring(call.before, call.column)

\* C4 as claimed: for every value v that occurs in the filter column,
\* filter_by_column returns exactly the rows whose cell equals v, in order,
\* and "All" returns the dataset itself.
C4_Original ==
    /\ CallOnOccurring =>
          /\ call.err = NoError
          /\ call.ret # None
          /\ Labelled(heap[call.ret]) =
                RowsEqual(call.before, call.column, call.value)
    /\ (call.called /\ call.value = "All") =>
          call.ret = data_filter /\ heap[call.ret] = call.before

\* C4 as amended: the same for every occurring value other than the sentinel
\* "All"; for "All" the call returns the dataset itself, whatever the column
\* holds.
C4_FilterExact ==
    /\ (CallOnOccurring /\ call.value # "All") =>
          /\ call.err = NoError
          /\ call.ret # None
          /\ heap[call.ret].columns = call.before.columns
          /\ Labelled(heap[call.ret]) =
                RowsEqual(call.before, call.column, call.value)
    /\ (call.called /\ call.value = "All") =>
          /\ call.err = NoError
          /\ call.ret = data_filter
          /\ heap[call.ret] = call.before

\* rows 0 and 2 of the iris sample are the setosa rows
C4_Witness ==
    /\ call.called
    /\ call.column = "species"
    /\ call.value = "setosa"
    /\ call.before = read_csv(IrisCsv).df
    /\ call.ret = CallRef
    /\ heap[call.ret].index = <<0, 2>>

\* C5: a call of filter_by_column with a column that is not in the dataset
\* fails with an error and returns no dataset, for every value, "All" included.
C5_InvalidColumnFails ==
    (call.called /\ ~HasColumn(call.before, call.column)) =>
        call.err # NoError /\ call.ret = None

\* no output waits for a run
Quiet == pc = "running" /\ ~table_ui.pending /\ ~scatter_plot.pending

\* C6: the filter runs once per rendered selection, not once per output: the
\* number of executions of filtered_data's body equals the number of
\* selections rendered, and once both outputs have run they hold the markup of
\* the same execution, the one for the current selection.
C6_SharedRecomputation ==
    /\ calc_runs = rendered
    /\ calc_runs <= changes + 1
    /\ Quiet =>
          /\ filtered_data.valid
          /\ filtered_data.sel = input_species
          /\ table_ui.run = calc_runs
          /\ scatter_plot.run = calc_runs
          /\ table_ui.markup.cells =
                create_data_table(heap[filtered_data.ret])
          /\ scatter_plot.markup =
                create_scatter_plot(heap[filtered_data.ret], "sepal_length",
                                    "petal_length", "species")

C6_Witness ==
    /\ Quiet
    /\ changes = 2
    /\ calc_runs = 3
    /\ table_ui.run = 3
    /\ scatter_plot.run = 3
    /\ input_species = "setosa"
    /\ table_ui.markup.shown = 2

\* C8: the loaded dataset never changes: after the load, DataManager and
\* DataFilter hold the frame the load returned, with the same columns, rows
\* and order, through every selection, filter run and render.
C8_DatasetImmutable ==
    last_load.ok =>
        /\ _data # None
        /\ heap[_data] = last_load.df
        /\ data_filter # None => heap[data_filter] = last_load.df
        /\ visualizer # None => heap[visualizer] = last_load.df

C8_Witness ==
    /\ Quiet
    /\ changes = 3
    /\ filtered_data.ret = ViewRef
    /\ Len(heap[ViewRef].rows) = 1
    /\ Len(heap[_data].rows) = 3
    /\ table_ui.markup.shown = 1

\* C9: once load has returned a dataset, no later step fails: the dropdown is
\* built and every table and plot render succeeds.
C9_NoErrorAfterLoad ==
    last_load.ok =>
        /\ app_error = NoError
        /\ pc # "ui_failed"
        /\ table_ui.markup.err = NoError
        /\ scatter_plot.markup.err = NoError

====
